---- MODULE Spec2Model ----
(***************************************************************************)
(* The PaperBanana diagram pipeline: the Visualizer + Critic refinement    *)
(* loop of orchestrate.run_diagram_pipeline, the retry loop of             *)
(* generate_image.generate_image and the response handling of              *)
(* critic.run_critic (Spec); retriever.run_retriever, its callers and     *)
(* orchestrate.run_plot_pipeline (SpecRetriever); the aspect-ratio         *)
(* selection of orchestrate.determine_aspect_ratio and generate_image      *)
(* (SpecAspect).                                                           *)
(*                                                                         *)
(* Python values are modelled as follows.                                  *)
(*  - a dict is a function whose domain is the set of keys present;        *)
(*  - a str is the record Str(s), s the sequence of its tokens; None is    *)
(*    the record None;                                                     *)
(*  - a file path is the sequence of its components, the last one being    *)
(*    the extension.                                                       *)
(***************************************************************************)
EXTENDS Integers, Sequences, FiniteSets, TLC

VARIABLES
    pc,                  \* position of the process in run_diagram_pipeline
    output_path,         \* run_diagram_pipeline's output_path argument
    styled_returned,     \* the styled_description run_stylist returned
    stylist_output,      \* the dict run_stylist returned (mutated in place)
    current_description, \* orchestrate.py local current_description
    iteration,           \* the loop variable of the refinement loop
    results,             \* the results dict of run_diagram_pipeline
    saved,               \* names passed to save_intermediate, in order
    files,               \* image files on disk: <<path, writing iteration>>
    render_calls,        \* log of the generate_image calls
    critic_calls,        \* log of the run_critic calls
    attempt,             \* generate_image local: attempt
    last_error,          \* generate_image local: last_error
    sleeps,              \* time.sleep calls of the running generate_image
    service_calls,       \* generate_content calls of the running generate_image
    exit_code,           \* exit status of the process: <<>> while it runs
    caller,              \* the program that runs: orchestrate.py or retriever.py
    mode,                \* the mode argument of run_retriever
    api_key,             \* GOOGLE_API_KEY is set in the environment
    index,               \* the reference catalog index.json
    selections,          \* selected_references of the Retriever model's answer
    retriever_output,    \* the dict run_retriever returned
    retriever_service_calls, \* generate_content calls of run_retriever
    aspect_arg,          \* the aspect_ratio argument given to generate_image
    aspect_ratio,        \* generate_image local aspect_ratio after line 105
    data_path,           \* the --data argument of a plot run
    plot_outcome         \* how plot_generator.main ended in run_plot_pipeline

\* the variables of run_retriever
retrieverVars == <<caller, mode, api_key, index, selections,
                   retriever_output, retriever_service_calls>>

\* the variables of the refinement loop and of generate_image
loopVars == <<output_path, styled_returned, stylist_output,
              current_description, iteration, results, files,
              render_calls, critic_calls, attempt, last_error, sleeps,
              service_calls>>

\* the variables of the aspect-ratio selection and of run_plot_pipeline
stageVars == <<aspect_arg, aspect_ratio, data_path, plot_outcome>>

vars == <<pc, saved, exit_code, loopVars, retrieverVars, stageVars>>

(***************************************************************************)
(* Bounds of the model.                                                    *)
(***************************************************************************)
\* number of distinct non-empty description texts
NumDescs == 2

\* number of reference ids the Retriever model may name
NumRefIds == 3

\* longest selected_references list the Retriever model may answer with
MaxSelected == 3

(***************************************************************************)
(* Program constants.                                                      *)
(***************************************************************************)
\* the loop bound off by one
MAX_REFINEMENTS_OffByOne == 3 + 1

MAX_REFINEMENTS == 3

MAX_RETRIES == 3

RETRY_BASE_DELAY == 2

(***************************************************************************)
(* Python values.                                                          *)
(***************************************************************************)
None == [type |-> "None"]

Str(s) == [type |-> "str", chars |-> s]

\* `if revised is not None:` in place of `if revised:`
Truthy_NotNone(v) == v # None

\* Python truthiness of None / str, as used by `if revised:`
Truthy(v) == v.type = "str" /\ v.chars # <<>>

\* str + str
Concat(a, b) == Str(a.chars \o b.chars)

EmptyDict == <<>>

\* d.get(k, default)
Get(d, k, default) == IF k \in DOMAIN d THEN d[k] ELSE default

\* d[k] = v
Set(d, k, v) == [x \in (DOMAIN d) \cup {k} |-> IF x = k THEN v ELSE d[x]]

Last(s) == s[Len(s)]

(***************************************************************************)
(* File paths (generate_image.py lines 132-135).                           *)
(***************************************************************************)
\* str.lower() on a path extension
Lower(ext) == IF ext = ".PNG" THEN ".png" ELSE ext

\* output_path.lower().endswith(".png")
EndsWithPng(p) == Len(p) > 0 /\ Lower(Last(p)) = ".png"

\* the path generate_image saves to and returns
SavedPath(p) == IF ~EndsWithPng(p) THEN Append(p, ".png") ELSE p

\* Path(image_path).exists()
Exists(p) == \E f \in files : f[1] = p

\* image.save(path): the file at path now holds the image of iteration i
WriteFile(fs, p, i) == {f \in fs : f[1] # p} \cup {<<p, i>>}

(***************************************************************************)
(* Inputs: the values the external collaborators may supply.               *)
(***************************************************************************)
OutputPaths == {<<"diagram", ".png">>, <<"diagram", ".jpg">>}

\* the non-empty description texts
Descriptions == {Str(<<i>>) : i \in 1..NumDescs}

PrimaryValues == {6, 7}

SecondaryValues == {5}

ScoreDocs ==
    [faithfulness : PrimaryValues, readability : PrimaryValues,
     conciseness : SecondaryValues, aesthetics : SecondaryValues]

Field(k, vals) == {k :> v : v \in vals}

OptField(k, vals) == {EmptyDict} \cup Field(k, vals)

\* the JSON objects the Critic model may answer with
CriticResponses ==
    {s @@ p @@ o @@ r :
        s \in Field("scores", ScoreDocs),
        p \in OptField("primary_pass", BOOLEAN),
        o \in Field("overall_pass", BOOLEAN),
        r \in OptField("revised_description",
                       {None, Str(<<>>)} \cup Descriptions)}

\* what one generate_content call of generate_image may produce
FailureKinds == {"no_image", "transient", "fatal"}

(***************************************************************************)
(* generate_image.py                                                       *)
(***************************************************************************)
quality_prefix == Str(<<0>>)

\* build_prompt(description, aspect_ratio)
build_prompt(description) == Concat(quality_prefix, description)

\* the exponent counted from 1
RetryDelay_FromOne(a) == RETRY_BASE_DELAY * (2 ^ (a + 1))

\* delay = RETRY_BASE_DELAY * (2 ** attempt)
RetryDelay(a) == RETRY_BASE_DELAY * (2 ^ a)

NoError == [kind |-> "None", attempt |-> 0]

\* RuntimeError(f"... failed after {MAX_RETRIES} attempts. Last error: ...")
RenderError(err) == [attempts |-> MAX_RETRIES, last_error |-> err]

(***************************************************************************)
(* orchestrate.py, run_diagram_pipeline                                    *)
(***************************************************************************)
\* the iteration number left out of the name
Doc_NoIter(name, i) == [name |-> name, iter |-> 0]

\* the name of a document given to save_intermediate; i = 0 for a name
\* without an iteration number
Doc(name, i) == [name |-> name, iter |-> i]

\* main line 345: save_intermediate(results, "pipeline_results", work_dir)
SaveResults(docs) == Append(docs, Doc("pipeline_results", 0))

\* lines 184-189: the statements after the loop
Finish(res) ==
    Set(Set(Set(res, "output_path", output_path),
            "elapsed_seconds", "elapsed"), "work_dir", "work_dir")

\* the state at line 121, when the loop is entered with the outputs of the
\* Retriever, Planner and Stylist phases saved (lines 94-119); the image
\* directory holds no file of an earlier run
Init ==
    /\ pc = "render"
    /\ output_path \in OutputPaths
    /\ styled_returned \in Descriptions
    /\ stylist_output = [styled_description |-> styled_returned,
                         caption |-> Str(<<0>>)]
    /\ current_description = styled_returned
    /\ iteration = 1
    /\ results = [mode |-> "diagram", iterations |-> <<>>]
    /\ saved = <<Doc("retriever_output", 0), Doc("planner_output", 0),
                  Doc("stylist_output", 0)>>
    /\ files = {}
    /\ render_calls = <<>>
    /\ critic_calls = <<>>
    /\ attempt = 0
    /\ last_error = NoError
    /\ sleeps = <<>>
    /\ service_calls = 0
    /\ exit_code = <<>>
    /\ caller = "orchestrate"
    /\ mode = "diagram"
    /\ api_key = TRUE
    /\ index = [present |-> TRUE, ids |-> {}]
    /\ selections = <<>>
    /\ retriever_output = [selected_references |-> <<>>]
    /\ retriever_service_calls = 1
    /\ aspect_arg = "16:9"
    /\ aspect_ratio = "16:9"
    /\ data_path = "unset"
    /\ plot_outcome = "unset"

\* lines 127-135 and generate_image lines 99-114: the call of generate_image
CallGenerateImage ==
    /\ pc = "render"
    /\ render_calls' = Append(render_calls,
            [iteration |-> iteration,
             prompt |-> build_prompt(current_description),
             output_path |-> output_path,
             status |-> "running",
             saved_path |-> <<>>])
    /\ attempt' = 0
    /\ last_error' = NoError
    /\ sleeps' = <<>>
    /\ service_calls' = 0
    /\ pc' = "attempt"
    /\ UNCHANGED <<stageVars, exit_code, retrieverVars, output_path, styled_returned,
                   stylist_output, current_description, iteration, results,
                   saved, files, critic_calls>>

\* render_calls with the status of the running call settled
Settle(status, path) ==
    [render_calls EXCEPT ![Len(render_calls)] =
        [@ EXCEPT !.status = status, !.saved_path = path]]

\* generate_image lines 116-138: the attempt yields an image
AttemptSucceeds ==
    /\ pc = "attempt"
    /\ service_calls' = 0
    /\ files' = WriteFile(files, SavedPath(output_path), iteration)
    /\ render_calls' = Settle("returned", SavedPath(output_path))
    /\ attempt' = 0
    /\ last_error' = NoError
    /\ sleeps' = <<>>
    /\ pc' = "critic"
    /\ UNCHANGED <<stageVars, exit_code, retrieverVars, output_path, styled_returned,
                   stylist_output, current_description, iteration, results,
                   saved, critic_calls>>

\* generate_image lines 140-148: a failed attempt that is retried
AttemptFailsRetry ==
    /\ pc = "attempt"
    /\ attempt < MAX_RETRIES - 1
    /\ \E kind \in FailureKinds :
        last_error' = [kind |-> kind, attempt |-> attempt + 1]
    /\ service_calls' = service_calls + 1
    /\ sleeps' = Append(sleeps, RetryDelay(attempt))
    /\ attempt' = attempt + 1
    /\ UNCHANGED <<stageVars, exit_code, retrieverVars, pc, output_path, styled_returned,
                   stylist_output, current_description, iteration, results,
                   saved, files, render_calls, critic_calls>>

\* the except clause without its break: the loop body goes on to the Critic
AttemptFailsRaise_NoBreak ==
    /\ pc = "attempt"
    /\ ~(attempt < MAX_RETRIES - 1)
    /\ \E kind \in FailureKinds :
        /\ last_error' = [kind |-> kind, attempt |-> attempt + 1]
        /\ results' = Set(results, "error", RenderError(last_error'))
    /\ service_calls' = service_calls + 1
    /\ render_calls' = Settle("RuntimeError", <<>>)
    /\ pc' = "critic"
    /\ UNCHANGED <<stageVars, exit_code, retrieverVars, output_path, styled_returned,
                   stylist_output, current_description, iteration, saved,
                   files, critic_calls, attempt, sleeps>>

\* the error of the attempt before the last one is wrapped
AttemptFailsRaise_StaleError ==
    /\ pc = "attempt"
    /\ ~(attempt < MAX_RETRIES - 1)
    /\ \E kind \in FailureKinds :
        /\ last_error' = [kind |-> kind, attempt |-> attempt + 1]
        /\ results' = Finish(Set(results, "error", RenderError(last_error)))
    /\ service_calls' = service_calls + 1
    /\ render_calls' = Settle("RuntimeError", <<>>)
    /\ saved' = SaveResults(saved)
    /\ pc' = "returned"
    /\ exit_code' = <<0>>
    /\ UNCHANGED <<stageVars, retrieverVars, output_path, styled_returned,
                   stylist_output, current_description, iteration, files,
                   critic_calls, attempt, sleeps>>

\* generate_image lines 149-153 and orchestrate.py lines 136-139, 184-189:
\* the last attempt fails, RuntimeError is raised and caught by the loop
AttemptFailsRaise ==
    /\ pc = "attempt"
    /\ ~(attempt < MAX_RETRIES - 1)
    /\ \E kind \in FailureKinds :
        /\ last_error' = [kind |-> kind, attempt |-> attempt + 1]
        /\ results' = Finish(Set(results, "error", RenderError(last_error')))
    /\ service_calls' = service_calls + 1
    /\ render_calls' = Settle("RuntimeError", <<>>)
    /\ saved' = SaveResults(saved)
    /\ pc' = "returned"
    /\ exit_code' = <<0>>
    /\ UNCHANGED <<stageVars, retrieverVars, output_path, styled_returned,
                   stylist_output, current_description, iteration, files,
                   critic_calls, attempt, sleeps>>

(***************************************************************************)
(* critic.py, run_critic, and the acceptance policy of orchestrate.py      *)
(***************************************************************************)
\* run_critic lines 176-177: the parsed response, tagged with the iteration
run_critic(resp) == Set(resp, "iteration", iteration)

\* a misspelt key: the default is always taken
PrimaryPass_Misspelt(co) == Get(co, "primary_passed", FALSE)

\* line 156: critic_output.get("primary_pass", False)
PrimaryPass(co) == Get(co, "primary_pass", FALSE)

\* the default is always taken
FinalScores_Default(co) == EmptyDict

\* lines 159, 166, 181: critic_output.get("scores", {})
FinalScores(co) == Get(co, "scores", EmptyDict)

\* line 171: critic_output.get("revised_description")
Revised(co) == Get(co, "revised_description", None)

\* > in place of >=
MaxReached_Strict(i) == i > MAX_REFINEMENTS

\* line 163: iteration >= MAX_REFINEMENTS
MaxReached(i) == i >= MAX_REFINEMENTS

\* the revision appended to the current description
NextDescription_Merge(current, revised) == Concat(current, revised)

\* line 174: the description of the next iteration
NextDescription(current, revised) == revised

\* the Critic is given the description run_stylist returned
CriticCall_Original(status) ==
    [iteration |-> iteration,
     image_path |-> output_path,
     styled_description |-> styled_returned,
     caption |-> Get(stylist_output, "caption", Str(<<>>)),
     status |-> status]

\* lines 146-151: the arguments of the run_critic call
CriticCall(status) ==
    [iteration |-> iteration,
     image_path |-> output_path,
     styled_description |-> Get(stylist_output, "styled_description", Str(<<>>)),
     caption |-> Get(stylist_output, "caption", Str(<<>>)),
     status |-> status]

\* lines 152, 177: the documents saved in an iteration with a revision
RevisionSaved ==
    saved \o <<Doc("critic_output_iter", iteration),
               Doc("stylist_output_revised_iter", iteration)>>

\* lines 152-153: the verdict is saved and appended to the history
Recorded(co) == Set(results, "iterations", Append(results["iterations"], co))

\* lines 158-159, 165-166, 180-181
Accepted(res, co) ==
    Set(Set(res, "accepted", TRUE), "final_scores", FinalScores(co))

\* run_critic lines 145-148: the image is not at image_path, sys.exit(1)
CriticExits ==
    /\ pc = "critic"
    /\ ~Exists(output_path)
    /\ critic_calls' = Append(critic_calls, CriticCall("SystemExit"))
    /\ pc' = "exited"
    /\ exit_code' = <<1>>
    /\ UNCHANGED <<stageVars, retrieverVars, output_path, styled_returned,
                   stylist_output, current_description, iteration, results,
                   saved, files, render_calls, attempt, last_error, sleeps,
                   service_calls>>

\* run_critic lines 161-176: the service call or json.loads raises, and
\* nothing in run_diagram_pipeline catches it
CriticRaises ==
    /\ pc = "critic"
    /\ Exists(output_path)
    /\ critic_calls' = Append(critic_calls, CriticCall("raised"))
    /\ pc' = "raised"
    /\ exit_code' = <<1>>
    /\ UNCHANGED <<stageVars, retrieverVars, output_path, styled_returned,
                   stylist_output, current_description, iteration, results,
                   saved, files, render_calls, attempt, last_error, sleeps,
                   service_calls>>

\* lines 146-160, 184-189: the verdict passes, the image is accepted
CriticAccepts ==
    /\ pc = "critic"
    /\ Exists(output_path)
    /\ \E resp \in CriticResponses :
        LET co == run_critic(resp) IN
        /\ PrimaryPass(co)
        /\ results' = Finish(Accepted(Recorded(co), co))
    /\ critic_calls' = Append(critic_calls, CriticCall("returned"))
    /\ saved' = SaveResults(Append(saved,
                                   Doc("critic_output_iter", iteration)))
    /\ pc' = "returned"
    /\ exit_code' = <<0>>
    /\ UNCHANGED <<stageVars, retrieverVars, output_path, styled_returned,
                   stylist_output, current_description, iteration, files,
                   render_calls, attempt, last_error, sleeps, service_calls>>

\* lines 146-168, 184-189: the verdict fails at the last iteration
CriticExhausts ==
    /\ pc = "critic"
    /\ Exists(output_path)
    /\ \E resp \in CriticResponses :
        LET co == run_critic(resp) IN
        /\ ~PrimaryPass(co)
        /\ MaxReached(iteration)
        /\ results' = Finish(Set(Accepted(Recorded(co), co),
                                 "max_refinements_reached", TRUE))
    /\ critic_calls' = Append(critic_calls, CriticCall("returned"))
    /\ saved' = SaveResults(Append(saved,
                                   Doc("critic_output_iter", iteration)))
    /\ pc' = "returned"
    /\ exit_code' = <<0>>
    /\ UNCHANGED <<stageVars, retrieverVars, output_path, styled_returned,
                   stylist_output, current_description, iteration, files,
                   render_calls, attempt, last_error, sleeps, service_calls>>

\* the revision is adopted but the loop variable is not advanced
CriticRevises_Stuck ==
    /\ pc = "critic"
    /\ Exists(output_path)
    /\ \E resp \in CriticResponses :
        LET co == run_critic(resp)
            revised == Revised(co)
        IN
        /\ ~PrimaryPass(co)
        /\ ~MaxReached(iteration)
        /\ Truthy(revised)
        /\ current_description' = NextDescription(current_description, revised)
        /\ stylist_output' = Set(stylist_output, "styled_description", revised)
        /\ results' = Recorded(co)
    /\ iteration' = iteration
    /\ pc' = "render"
    /\ critic_calls' = Append(critic_calls, CriticCall("returned"))
    /\ saved' = RevisionSaved
    /\ UNCHANGED <<stageVars, exit_code, retrieverVars, output_path, styled_returned,
                   files, render_calls, attempt, last_error, sleeps,
                   service_calls>>

\* lines 146-177, 121: the verdict fails and carries a revised description
CriticRevises ==
    /\ pc = "critic"
    /\ Exists(output_path)
    /\ \E resp \in CriticResponses :
        LET co == run_critic(resp)
            revised == Revised(co)
        IN
        /\ ~PrimaryPass(co)
        /\ ~MaxReached(iteration)
        /\ Truthy(revised)
        /\ current_description' = NextDescription(current_description, revised)
        /\ stylist_output' = Set(stylist_output, "styled_description", revised)
        /\ IF iteration + 1 <= MAX_REFINEMENTS
           THEN /\ results' = Recorded(co)
                /\ iteration' = iteration + 1
                /\ pc' = "render"
                /\ saved' = RevisionSaved
                /\ exit_code' = exit_code
           ELSE /\ results' = Finish(Recorded(co))
                /\ iteration' = iteration
                /\ pc' = "returned"
                /\ saved' = SaveResults(RevisionSaved)
                /\ exit_code' = <<0>>
    /\ critic_calls' = Append(critic_calls, CriticCall("returned"))
    /\ UNCHANGED <<stageVars, retrieverVars, output_path, styled_returned, files,
                   render_calls, attempt, last_error, sleeps, service_calls>>

\* lines 146-171, 178-182, 184-189: the verdict fails without a usable
\* revised description, the current image is accepted
CriticAcceptsCurrent ==
    /\ pc = "critic"
    /\ Exists(output_path)
    /\ \E resp \in CriticResponses :
        LET co == run_critic(resp) IN
        /\ ~PrimaryPass(co)
        /\ ~MaxReached(iteration)
        /\ ~Truthy(Revised(co))
        /\ results' = Finish(Accepted(Recorded(co), co))
    /\ critic_calls' = Append(critic_calls, CriticCall("returned"))
    /\ saved' = SaveResults(Append(saved,
                                   Doc("critic_output_iter", iteration)))
    /\ pc' = "returned"
    /\ exit_code' = <<0>>
    /\ UNCHANGED <<stageVars, retrieverVars, output_path, styled_returned,
                   stylist_output, current_description, iteration, files,
                   render_calls, attempt, last_error, sleeps, service_calls>>

Next ==
    \/ CallGenerateImage
    \/ AttemptSucceeds
    \/ AttemptFailsRetry
    \/ AttemptFailsRaise
    \/ CriticExits
    \/ CriticRaises
    \/ CriticAccepts
    \/ CriticExhausts
    \/ CriticRevises
    \/ CriticAcceptsCurrent

Spec == Init /\ [][Next]_vars

(***************************************************************************)
(* Properties.                                                             *)
(***************************************************************************)
\* the verdict history of the run
Verdicts == results["iterations"]

\* the verdict carries primary_pass = true
VerdictPasses(v) == "primary_pass" \in DOMAIN v /\ v["primary_pass"]

\* the verdict carries a non-empty revised description
HasRevision(v) ==
    /\ "revised_description" \in DOMAIN v
    /\ v["revised_description"].type = "str"
    /\ v["revised_description"].chars # <<>>

\* the run report marks the image as accepted
MarkedAccepted == "accepted" \in DOMAIN results /\ results["accepted"]

\* the run ended at verdict k: it is the last verdict, the pipeline has
\* returned, and k renders and k evaluations were made in all
EndedAt(k) ==
    /\ pc = "returned"
    /\ k = Len(Verdicts)
    /\ Len(render_calls) = k
    /\ Len(critic_calls) = k

\* C1: generate_image is called at most once per iteration (the i-th call
\* is the call of iteration i), and at most 3 render and 3 evaluate calls
\* are made; iteration never exceeds 3.
C1_AtMostThreeCycles ==
    /\ iteration \in 1..3
    /\ Len(render_calls) <= 3
    /\ Len(critic_calls) <= Len(render_calls)
    /\ \A i \in 1..Len(render_calls) : render_calls[i].iteration = i
    /\ \A i \in 1..Len(critic_calls) : critic_calls[i].iteration = i

C1_Witness ==
    /\ pc = "returned"
    /\ Len(render_calls) = 3
    /\ Len(critic_calls) = 3

\* C2: a verdict of iteration k with primary_pass true ends the run at k:
\* accepted is set, final_scores are the verdict's scores, and no render or
\* critic call of a later iteration exists.
C2_PassTerminatesAccepted ==
    \A k \in 1..Len(Verdicts) :
        VerdictPasses(Verdicts[k]) =>
            /\ EndedAt(k)
            /\ MarkedAccepted
            /\ "final_scores" \in DOMAIN results
            /\ results["final_scores"] = Verdicts[k]["scores"]

C2_Witness ==
    /\ Len(Verdicts) = 2
    /\ VerdictPasses(Verdicts[2])
    /\ MarkedAccepted

\* C3: the primary_pass value the acceptance decision uses is true iff
\* faithfulness >= 7 and readability >= 7 of the verdict's scores.
C3_PrimaryPassFromScores ==
    \A k \in 1..Len(Verdicts) :
        PrimaryPass(Verdicts[k]) <=>
            /\ Verdicts[k]["scores"].faithfulness >= 7
            /\ Verdicts[k]["scores"].readability >= 7

\* C4: no recorded verdict has overall_pass true with primary_pass false.
C4_OverallImpliesPrimary ==
    \A k \in 1..Len(Verdicts) :
        Get(Verdicts[k], "overall_pass", FALSE) => VerdictPasses(Verdicts[k])

\* C5: a failing verdict without a usable revised description (null, missing
\* or empty) below the last iteration ends the run there, accepting the
\* current image: the pipeline returns, with no further render or critic call.
C5_NoRevisionAcceptsCurrent ==
    \A k \in 1..Len(Verdicts) :
        (~VerdictPasses(Verdicts[k]) /\ ~HasRevision(Verdicts[k]) /\ k < 3) =>
            /\ EndedAt(k)
            /\ MarkedAccepted

C5_Witness ==
    /\ Len(Verdicts) = 2
    /\ "primary_pass" \in DOMAIN Verdicts[2]
    /\ ~Verdicts[2]["primary_pass"]
    /\ "revised_description" \in DOMAIN Verdicts[2]
    /\ Verdicts[2]["revised_description"] = None
    /\ pc = "returned"

\* the verdict breaks the pairing of primary_pass and revised description
PairingViolated(v) ==
    \/ ~VerdictPasses(v) /\ Get(v, "revised_description", None) = None
    \/ VerdictPasses(v) /\ Get(v, "revised_description", None) # None

\* C6: a verdict that violates the pairing is a stage failure: the run
\* never records accepted = true for it.
C6_ContractViolationNotAccepted ==
    \A k \in 1..Len(Verdicts) :
        PairingViolated(Verdicts[k]) => ~MarkedAccepted

\* the Specification of iteration i: the Style Reviser's description for
\* i = 1, the revised description of verdict i - 1 after that
SpecificationOf(i) ==
    IF i = 1 THEN styled_returned ELSE Verdicts[i - 1]["revised_description"]

\* C7: the prompt of the render call of iteration i is the quality preamble
\* followed by exactly the Specification of iteration i.
C7_RenderInputIsRevision ==
    \A i \in 1..Len(render_calls) :
        /\ i > 1 => (i - 1 <= Len(Verdicts) /\ HasRevision(Verdicts[i - 1]))
        /\ render_calls[i].prompt =
              Str(quality_prefix.chars \o SpecificationOf(i).chars)

C7_Witness ==
    /\ Len(render_calls) = 3
    /\ Verdicts[1]["revised_description"] # styled_returned
    /\ Verdicts[2]["revised_description"] # Verdicts[1]["revised_description"]

\* C8 as stated: when the verdict of iteration 3 fails, the run report does
\* not mark the image as accepted.
C8_ExhaustedNotAccepted ==
    (Len(Verdicts) = 3 /\ ~VerdictPasses(Verdicts[3])) => ~MarkedAccepted

\* C8 amended: when the verdict of iteration 3 fails, the run ends there
\* with max_refinements_reached = true in the report (and accepted = true,
\* final_scores the scores of that verdict); the flag is set in no other case.
C8_ExhaustedFlagged ==
    /\ (Len(Verdicts) = 3 /\ ~VerdictPasses(Verdicts[3])) =>
            /\ EndedAt(3)
            /\ Get(results, "max_refinements_reached", FALSE)
            /\ MarkedAccepted
            /\ results["final_scores"] = Verdicts[3]["scores"]
    /\ "max_refinements_reached" \in DOMAIN results =>
            (Len(Verdicts) = 3 /\ ~VerdictPasses(Verdicts[3]))

C8_Witness ==
    /\ Len(Verdicts) = 3
    /\ ~VerdictPasses(Verdicts[3])
    /\ Get(results, "max_refinements_reached", FALSE)

\* C9: when generate_image raises at iteration k, the pipeline returns with
\* the error in the report; the Critic is not called for iteration k and
\* the failed call is the last render call.
C9_RenderFailureTerminates ==
    \A k \in 1..Len(render_calls) :
        render_calls[k].status = "RuntimeError" =>
            /\ pc = "returned"
            /\ k = Len(render_calls)
            /\ "error" \in DOMAIN results
            /\ results["error"] = RenderError(last_error)
            /\ Len(critic_calls) = k - 1
            /\ Len(Verdicts) = k - 1

C9_Witness ==
    /\ Len(render_calls) = 2
    /\ render_calls[2].status = "RuntimeError"

\* the delays of the retry policy: base, then 2 * base
Backoff == <<2, 4>>

\* C10: one generate_image call makes at most 3 service attempts; after n
\* failed attempts it has slept the first n delays of 2 s, 4 s; it makes no
\* attempt after one that yielded an image; after the third failure it
\* raises without a third sleep, whatever the kind of the failures.
C10_RetryPolicy ==
    /\ service_calls <= 3
    /\ pc = "attempt" =>
            /\ render_calls[Len(render_calls)].status = "running"
            /\ service_calls = attempt
            /\ attempt <= 2
            /\ sleeps = SubSeq(Backoff, 1, attempt)
    /\ \A k \in 1..Len(render_calls) :
            render_calls[k].status = "RuntimeError" =>
                /\ service_calls = 3
                /\ sleeps = Backoff

C10_Witness ==
    /\ Len(render_calls) = 1
    /\ render_calls[1].status = "RuntimeError"
    /\ last_error.kind = "no_image"
    /\ sleeps = <<2, 4>>

\* the underlying causes the error of the run report carries
WrappedCauses == {results["error"].last_error}

\* some render call of the run raised
RenderFailed ==
    \E k \in 1..Len(render_calls) : render_calls[k].status = "RuntimeError"

\* C11 as stated: after three failed attempts the error of the run wraps
\* the causes of attempts 1, 2 and 3.
C11_ErrorWrapsAllCauses ==
    RenderFailed =>
        \A a \in 1..3 : \E c \in WrappedCauses : c.attempt = a

\* C11 amended: after three failed attempts the run returns with an error
\* that wraps exactly one cause, the error of attempt 3.
C11_ErrorWrapsLastCause ==
    RenderFailed =>
        /\ pc = "returned"
        /\ "error" \in DOMAIN results
        /\ results["error"].attempts = 3
        /\ \A c \in WrappedCauses :
                c.attempt = 3 /\ c.kind \in FailureKinds /\ c = last_error

C11_Witness ==
    /\ RenderFailed
    /\ sleeps = <<2, 4>>
    /\ \A c \in WrappedCauses : c.kind = "transient"

\* C14: the image of every rendered iteration is still on disk, and the
\* verdict history holds the verdicts of iterations 1..n in order.
C14_ImagesNeverOverwritten ==
    /\ \A i \in 1..Len(render_calls) :
            render_calls[i].status = "returned" =>
                \E f \in files : f[2] = i
    /\ \A k \in 1..Len(Verdicts) : Verdicts[k]["iteration"] = k

\* the documents of the three stages before the loop
StageDocs ==
    <<Doc("retriever_output", 0), Doc("planner_output", 0),
      Doc("stylist_output", 0)>>

Terminal == pc \in {"returned", "raised", "exited"}

\* an upper bound on the steps the loop can still take: per iteration one
\* generate_image call, MAX_RETRIES attempts and one critic call
Measure ==
    IF Terminal THEN 0
    ELSE 5 * (3 - iteration) +
         (CASE pc = "render" -> 5
            [] pc = "attempt" -> 4 - attempt
            [] pc = "critic" -> 1)

\* C16: the loop reaches a terminal state after a bounded number of steps:
\* outside a terminal state a step is always possible, and every step
\* lowers a natural-valued measure that starts at 15.
C16_LoopTerminates ==
    /\ [](Measure \in 0..15 /\ (~Terminal => ENABLED Next))
    /\ [][Measure' < Measure]_vars

C16_Witness ==
    /\ Terminal
    /\ Len(critic_calls) = 3
    /\ service_calls = 0

\* C17: a Critic response that lacks primary_pass or scores is a stage
\* failure: it is never recorded and decided on with a default value.
C17_MissingFieldIsFailure ==
    \A k \in 1..Len(Verdicts) :
        \/ {"primary_pass", "scores"} \subseteq DOMAIN Verdicts[k]
        \/ pc = "raised"

\* C18: after a fatal service error generate_image makes no further
\* service attempt and does not sleep.
C18_FatalNotRetried ==
    last_error.kind = "fatal" =>
        /\ pc # "attempt"
        /\ service_calls = last_error.attempt
        /\ Len(sleeps) = last_error.attempt - 1

\* the run failed: a render call raised, or the process ended on an
\* uncaught exception or on sys.exit(1)
Failed == RenderFailed \/ pc \in {"raised", "exited"}

\* C12: the process exits with 0 when the run ends ACCEPTED or EXHAUSTED
\* and with a non-zero code when it ends FAILED.
C12_ExitCodeTellsFailure ==
    exit_code # <<>> =>
        IF Failed THEN exit_code # <<0>> ELSE exit_code = <<0>>

\* the keys of a complete run summary
SummaryKeys ==
    {"mode", "accepted", "iterations", "final_scores", "elapsed_seconds",
     "output_path", "work_dir"}

\* C13: when the process has ended, the pipeline_results document has been
\* saved and holds every key of the run summary, and the error as well
\* when the run failed.
C13_SummaryAlwaysComplete ==
    exit_code # <<>> =>
        /\ \E i \in 1..Len(saved) : saved[i] = Doc("pipeline_results", 0)
        /\ SummaryKeys \subseteq DOMAIN results
        /\ Failed => "error" \in DOMAIN results

\* C23: the image_path of the run_critic call of an iteration is the path
\* the generate_image call of that iteration returned.
C23_CriticReadsRenderedFile ==
    \A i \in 1..Len(critic_calls) :
        /\ render_calls[i].status = "returned"
        /\ critic_calls[i].image_path = render_calls[i].saved_path

\* C24: the description given to the Critic of iteration i is the
\* Specification of iteration i, the one whose prompt was rendered in that
\* iteration: the Style Reviser's for i = 1, the revision of verdict i - 1
\* after that.
C24_CriticJudgesCurrentSpecification ==
    \A i \in 1..Len(critic_calls) :
        /\ critic_calls[i].styled_description = SpecificationOf(i)
        /\ render_calls[i].prompt =
              Str(quality_prefix.chars \o
                  critic_calls[i].styled_description.chars)

C24_Witness ==
    /\ Len(critic_calls) >= 2
    /\ critic_calls[2].status = "returned"
    /\ critic_calls[2].styled_description # styled_returned
    /\ critic_calls[2].styled_description =
          Verdicts[1]["revised_description"]

\* C25: the record run_stylist returned is never changed: its
\* styled_description stays the one the Style Reviser produced.
C25_StylistOutputImmutable ==
    stylist_output["styled_description"] = styled_returned

\* C26: no two save_intermediate calls of a run name the same document.
C26_DocumentsWriteOnce ==
    \A i \in 1..Len(saved) : \A j \in 1..Len(saved) :
        saved[i] = saved[j] => i = j

C26_Witness ==
    /\ pc = "returned"
    /\ Len(saved) = 9
    /\ saved[5] = Doc("stylist_output_revised_iter", 1)
    /\ saved[7] = Doc("stylist_output_revised_iter", 2)
    /\ saved[9] = Doc("pipeline_results", 0)

\* C28: a returned result holds exactly one of the keys accepted and error;
\* accepted is only ever true; error is there only after a failed render,
\* and then the history holds the verdicts of the earlier iterations and
\* no accepted flag.
C28_AcceptedXorError ==
    /\ "accepted" \in DOMAIN results => results["accepted"] = TRUE
    /\ "error" \in DOMAIN results =>
          /\ Last(render_calls).status = "RuntimeError"
          /\ Len(Verdicts) = Len(render_calls) - 1
          /\ "accepted" \notin DOMAIN results
    /\ pc = "returned" =>
          ("accepted" \in DOMAIN results) # ("error" \in DOMAIN results)

C28_Witness ==
    /\ pc = "returned"
    /\ "error" \in DOMAIN results
    /\ "accepted" \notin DOMAIN results
    /\ Len(render_calls) = 3
    /\ Len(Verdicts) = 2

\* the generate_image calls that returned a path
SuccessfulRenders ==
    {i \in 1..Len(render_calls) : render_calls[i].status = "returned"}

\* C29: when accepted is set, final_scores are the scores of the last
\* verdict of the history, that verdict is the one of the image left at the
\* output path, and there are as many verdicts as successful render calls.
C29_FinalScoresOfLastVerdict ==
    MarkedAccepted =>
        /\ Verdicts # <<>>
        /\ results["final_scores"] = Get(Last(Verdicts), "scores", EmptyDict)
        /\ Last(Verdicts)["iteration"] = Len(Verdicts)
        /\ <<output_path, Len(Verdicts)>> \in files
        /\ Len(Verdicts) = Cardinality(SuccessfulRenders)

C29_Witness ==
    /\ MarkedAccepted
    /\ Len(Verdicts) = 3
    /\ results["final_scores"] = Verdicts[3]["scores"]
    /\ Verdicts[3]["scores"] # Verdicts[2]["scores"]

(***************************************************************************)
(* retriever.py: run_retriever, called by retriever.py main (line 205)     *)
(* and by run_diagram_pipeline (orchestrate.py line 98).                   *)
(***************************************************************************)
RefIds == 1..NumRefIds

\* one entry of selected_references in the model's answer
Refs ==
    {i @@ r : i \in Field("id", RefIds), r \in OptField("reason", {"because"})}

\* the lists of at most MaxSelected entries
RefLists == UNION {[1..n -> Refs] : n \in 0..MaxSelected}

\* the JSON objects the Retriever model may answer with
RetrieverResponses ==
    {c @@ v @@ sel :
        c \in Field("category", {"Agent & Reasoning"}),
        v \in Field("visual_intent", {"Pipeline/Flow", "Detailed Module"}),
        sel \in OptField("selected_references", RefLists)}

\* the catalogs: index.json missing, or present with some of the ids
Catalogs ==
    {[present |-> FALSE, ids |-> {}]} \cup
    {[present |-> TRUE, ids |-> ids] : ids \in SUBSET RefIds}

\* the keyword arguments of the call at orchestrate.py line 98
OrchestrateKeywords == {"mode", "references_dir"}

\* the parameters of run_retriever (retriever.py line 111)
RetrieverParams == {"methodology", "mode"}

\* run_retriever is called: by retriever.py main in either mode (line
\* 205), by orchestrate.py main in diagram mode only (lines 322, 337)
CallsRetriever == caller = "retriever_cli" \/ mode = "diagram"

\* Python binds the call: every keyword names a parameter
CallAccepted ==
    /\ CallsRetriever
    /\ caller = "retriever_cli" \/ OrchestrateKeywords \subseteq RetrieverParams

\* `if not key:` never true
KeyMissing_Never(key) == FALSE

\* get_api_key lines 41-42: `if not key:`
KeyMissing(key) == ~key

\* retriever.py lines 164-170: the enriched entry of a selected reference
EnrichedRef(ref) ==
    [id |-> ref["id"], file |-> <<"references", ref["id"]>>,
     reason |-> Get(ref, "reason", "")]

\* every selected reference is kept
Enrich_NoFilter(refs, ids) == [i \in 1..Len(refs) |-> EnrichedRef(refs[i])]

RECURSIVE EnrichLoop(_, _)
\* retriever.py lines 159-172: the loop over the selected references
EnrichLoop(refs, ids) ==
    IF refs = <<>> THEN <<>>
    ELSE LET rest == EnrichLoop(Tail(refs), ids) IN
         IF Head(refs)["id"] \in ids
         THEN <<EnrichedRef(Head(refs))>> \o rest
         ELSE rest

\* retriever.py lines 158-174
Enrich(refs, ids) == EnrichLoop(refs, ids)

\* retriever.py lines 123-128: the plot-mode answer
PlotSentinel ==
    [category |-> "plot", visual_intent |-> "statistical_plot",
     domain_signals |-> <<>>, selected_references |-> <<>>]

\* the process starts: retriever.py main, or orchestrate.py main up to
\* line 98 (diagram mode) or line 339 (plot mode)
InitRetriever ==
    /\ pc = "retriever"
    /\ caller \in {"orchestrate", "retriever_cli"}
    /\ mode \in {"diagram", "plot"}
    /\ api_key \in BOOLEAN
    /\ index \in Catalogs
    /\ selections = <<>>
    /\ retriever_output = EmptyDict
    /\ retriever_service_calls = 0
    /\ aspect_arg = "unset"
    /\ aspect_ratio = "unset"
    /\ data_path = "unset"
    /\ plot_outcome = "unset"
    /\ saved = <<>>
    /\ exit_code = <<>>
    /\ output_path = <<"diagram", ".png">>
    /\ styled_returned = Str(<<>>)
    /\ stylist_output = EmptyDict
    /\ current_description = Str(<<>>)
    /\ iteration = 1
    /\ results = [mode |-> "diagram", iterations |-> <<>>]
    /\ files = {}
    /\ render_calls = <<>>
    /\ critic_calls = <<>>
    /\ attempt = 0
    /\ last_error = NoError
    /\ sleeps = <<>>
    /\ service_calls = 0

\* orchestrate.py line 98: the call names a keyword run_retriever does not
\* have; TypeError, caught nowhere
RetrieverCallRejected ==
    /\ pc = "retriever"
    /\ CallsRetriever
    /\ ~CallAccepted
    /\ pc' = "raised"
    /\ exit_code' = <<1>>
    /\ UNCHANGED <<stageVars, saved, loopVars, retrieverVars>>

\* what follows the return of run_retriever: retriever.py lines 207-211
\* write the output and the process ends; orchestrate.py line 99 saves the
\* output and goes on to the Planner
AfterRetriever ==
    /\ saved' = Append(saved, Doc("retriever_output", 0))
    /\ IF caller = "retriever_cli"
       THEN pc' = "returned" /\ exit_code' = <<0>>
       ELSE pc' = "planner" /\ exit_code' = exit_code

\* retriever.py lines 121-128: plot mode selects nothing
RetrieverPlotMode ==
    /\ pc = "retriever"
    /\ CallAccepted
    /\ mode = "plot"
    /\ retriever_output' = PlotSentinel
    /\ AfterRetriever
    /\ UNCHANGED <<stageVars, loopVars, caller, mode, api_key, index, selections,
                   retriever_service_calls>>

\* load_index lines 50-52: no index.json, sys.exit(1)
RetrieverNoIndex ==
    /\ pc = "retriever"
    /\ CallAccepted
    /\ mode # "plot"
    /\ ~index.present
    /\ pc' = "exited"
    /\ exit_code' = <<1>>
    /\ UNCHANGED <<stageVars, saved, loopVars, retrieverVars>>

\* get_api_key lines 41-44: no credential, sys.exit(1)
RetrieverNoKey ==
    /\ pc = "retriever"
    /\ CallAccepted
    /\ mode # "plot"
    /\ index.present
    /\ KeyMissing(api_key)
    /\ pc' = "exited"
    /\ exit_code' = <<1>>
    /\ UNCHANGED <<stageVars, saved, loopVars, retrieverVars>>

\* retriever.py lines 139-155: generate_content or json.loads raises
RetrieverRaises ==
    /\ pc = "retriever"
    /\ CallAccepted
    /\ mode # "plot"
    /\ index.present
    /\ ~KeyMissing(api_key)
    /\ retriever_service_calls' = retriever_service_calls + 1
    /\ pc' = "raised"
    /\ exit_code' = <<1>>
    /\ UNCHANGED <<stageVars, saved, loopVars, caller, mode, api_key, index,
                   selections, retriever_output>>

\* retriever.py lines 139-181: the model answers, the selected references
\* are enriched from the index
RetrieverReturns ==
    /\ pc = "retriever"
    /\ CallAccepted
    /\ mode # "plot"
    /\ index.present
    /\ ~KeyMissing(api_key)
    /\ retriever_service_calls' = retriever_service_calls + 1
    /\ \E resp \in RetrieverResponses :
        /\ selections' = Get(resp, "selected_references", <<>>)
        /\ retriever_output' =
              Set(resp, "selected_references", Enrich(selections', index.ids))
    /\ AfterRetriever
    /\ UNCHANGED <<stageVars, loopVars, caller, mode, api_key, index>>

\* what the --data argument of a plot run may be: not given, the path of
\* no file, the path of a file
DataPaths == {"none", "missing", "present"}

\* how plot_generator.main may end: it saves the plot, it raises an
\* Exception (unreadable config, a plot function fails), or it calls
\* sys.exit(1) (plot_generator.py lines 348-351, 401-403)
PlotOutcomes == {"completes", "raises", "sys_exit"}

\* `except Exception` (orchestrate.py line 239): SystemExit derives from
\* BaseException only
CaughtByExceptException(outcome) == outcome = "raises"

\* orchestrate.py lines 338-346 and run_plot_pipeline (lines 192-248):
\* without --data the process exits 1; otherwise plot_generator.main is run
\* when the data file exists, and the result is saved by main
RunPlotPipeline ==
    /\ pc = "retriever"
    /\ ~CallsRetriever
    /\ \E data \in DataPaths, outcome \in PlotOutcomes :
        /\ data_path' = data
        /\ plot_outcome' = IF data = "present" THEN outcome ELSE "unset"
        /\ IF data = "none"
           THEN /\ pc' = "exited"
                /\ exit_code' = <<1>>
                /\ UNCHANGED <<saved, results>>
           ELSE IF data = "present" /\ outcome = "completes"
           THEN /\ results' = [mode |-> "plot", output_path |-> output_path,
                               method |-> "plot_generator"]
                /\ saved' = SaveResults(saved)
                /\ pc' = "returned"
                /\ exit_code' = <<0>>
           ELSE IF data = "missing" \/ CaughtByExceptException(outcome)
           THEN /\ results' = [mode |-> "plot", output_path |-> output_path,
                               method |-> "manual"]
                /\ saved' = SaveResults(saved)
                /\ pc' = "returned"
                /\ exit_code' = <<0>>
           ELSE /\ pc' = "exited"
                /\ exit_code' = <<1>>
                /\ UNCHANGED <<saved, results>>
    /\ UNCHANGED <<output_path, styled_returned, stylist_output,
                   current_description, iteration, files, render_calls,
                   critic_calls, attempt, last_error, sleeps, service_calls,
                   retrieverVars, aspect_arg, aspect_ratio>>

NextRetriever ==
    \/ RunPlotPipeline
    \/ RetrieverCallRejected
    \/ RetrieverPlotMode
    \/ RetrieverNoIndex
    \/ RetrieverNoKey
    \/ RetrieverRaises
    \/ RetrieverReturns

SpecRetriever == InitRetriever /\ [][NextRetriever]_vars

\* the run made no service call and persisted nothing; it can only end,
\* and it ends with a non-zero exit code
FailedBeforeAnyStage ==
    /\ retriever_service_calls = 0
    /\ service_calls = 0
    /\ render_calls = <<>>
    /\ critic_calls = <<>>
    /\ saved = <<>>
    /\ IF pc = "retriever"
       THEN exit_code = <<>> /\ ENABLED NextRetriever
       ELSE exit_code = <<1>>

\* C27: in an orchestrate.py diagram run with the credential and the
\* catalog present, the process does not end before run_retriever has made
\* its service call.
C27_RetrieverCallAccepted ==
    (caller = "orchestrate" /\ mode = "diagram" /\ api_key /\ index.present
        /\ pc # "retriever") => retriever_service_calls >= 1

C20_StaleIdsDropped ==
    (mode = "diagram" /\ selections # <<>>) =>
        LET InCatalog(ref) == ref["id"] \in index.ids
            kept == SelectSeq(selections, InCatalog)
            out == retriever_output["selected_references"]
        IN  /\ pc = "returned"
            /\ Len(out) = Len(kept)
            /\ \A i \in 1..Len(kept) :
                /\ out[i].id = kept[i]["id"]
                /\ out[i].file = <<"references", kept[i]["id"]>>

C20_Witness ==
    /\ pc = "returned"
    /\ Len(selections) = 3
    /\ selections[1]["id"] \notin index.ids
    /\ selections[2]["id"] \in index.ids
    /\ selections[3]["id"] \notin index.ids
    /\ Len(retriever_output["selected_references"]) = 1

\* C21: when run_retriever returns in diagram mode, its output holds
\* exactly 2 selected references, or none.
C21_TwoReferencesOrNone ==
    (mode = "diagram" /\ pc = "returned") =>
        Len(retriever_output["selected_references"]) \in {0, 2}

\* C30: once run_plot_pipeline has been entered it returns a result to
\* main: method plot_generator when the chart renderer completed, method
\* manual in every other case; the process does not end inside it.
C30_PlotPipelineAlwaysReturns ==
    (mode = "plot" /\ data_path \in {"missing", "present"}) =>
        /\ pc = "returned"
        /\ results["method"] =
              IF plot_outcome = "completes" THEN "plot_generator" ELSE "manual"

(***************************************************************************)
(* The aspect-ratio selector: determine_aspect_ratio (orchestrate.py) and  *)
(* generate_image up to its first generate_content call, as called by      *)
(* run_diagram_pipeline, by generate_image.py main and by a program that   *)
(* imports generate_image.                                                 *)
(***************************************************************************)
\* generate_image.py lines 39-46: the keys of ASPECT_RATIOS
ASPECT_RATIOS == {"16:9", "3:2", "1:1", "21:9", "9:16", "2:3"}

\* generate_image.py line 49
DEFAULT_ASPECT_RATIO == "16:9"

\* selectors a caller may pass
AspectSelectors == ASPECT_RATIOS \cup {"4:3", "wide", ""}

\* the visual_intent values of the Retriever's answer
VisualIntents ==
    {"Pipeline/Flow", "Framework Overview", "Detailed Module",
     "Architecture Diagram", "Flowchart", "pipeline/flow", ""}

\* orchestrate.py lines 55-60: the mapping of determine_aspect_ratio
AspectMapping ==
    [v \in {"Pipeline/Flow", "Framework Overview"} |-> "16:9"] @@
    [v \in {"Detailed Module", "Architecture Diagram"} |-> "3:2"]

\* orchestrate.py line 61: mapping.get(visual_intent, "16:9")
determine_aspect_ratio(visual_intent) ==
    Get(AspectMapping, visual_intent, "16:9")

\* the selector is used as given
ValidatedRatio_NoFallback(selector) == selector

\* generate_image.py lines 102-105: an unknown selector is replaced by the
\* default
ValidatedRatio(selector) ==
    IF selector \notin ASPECT_RATIOS THEN DEFAULT_ASPECT_RATIO ELSE selector

\* the state before the aspect ratio is chosen: orchestrate.py line 119,
\* generate_image.py main line 171, or an importing program about to call
\* generate_image
InitAspect ==
    /\ caller \in {"orchestrate", "generate_image_cli", "import"}
    /\ pc = IF caller = "import" THEN "generate_image" ELSE "aspect"
    /\ output_path \in OutputPaths
    /\ styled_returned \in Descriptions
    /\ stylist_output = [styled_description |-> styled_returned,
                         caption |-> Str(<<0>>)]
    /\ current_description = styled_returned
    /\ iteration = 1
    /\ \E v \in VisualIntents :
          results = [mode |-> "diagram", iterations |-> <<>>] @@
                    (IF caller = "orchestrate"
                     THEN "visual_intent" :> v ELSE EmptyDict)
    /\ aspect_arg \in IF caller = "orchestrate" THEN {"unset"}
                     ELSE AspectSelectors
    /\ aspect_ratio = "unset"
    /\ api_key \in BOOLEAN
    /\ saved = IF caller = "orchestrate"
               THEN <<Doc("retriever_output", 0), Doc("planner_output", 0),
                      Doc("stylist_output", 0)>>
               ELSE <<>>
    /\ files = {}
    /\ render_calls = <<>>
    /\ critic_calls = <<>>
    /\ attempt = 0
    /\ last_error = NoError
    /\ sleeps = <<>>
    /\ service_calls = 0
    /\ exit_code = <<>>
    /\ mode = "diagram"
    /\ index = [present |-> TRUE, ids |-> {}]
    /\ selections = <<>>
    /\ retriever_output = [selected_references |-> <<>>]
    /\ retriever_service_calls = IF caller = "orchestrate" THEN 1 ELSE 0
    /\ data_path = "unset"
    /\ plot_outcome = "unset"

\* orchestrate.py line 119
DetermineAspectRatio ==
    /\ pc = "aspect"
    /\ caller = "orchestrate"
    /\ aspect_arg' = determine_aspect_ratio(Get(results, "visual_intent", ""))
    /\ pc' = "generate_image"
    /\ UNCHANGED <<saved, exit_code, loopVars, retrieverVars, aspect_ratio,
                   data_path, plot_outcome>>

\* generate_image.py lines 166-172: argparse checks --aspect-ratio against
\* choices and ends the process with status 2 for any other value
ParseAspectArgument ==
    /\ pc = "aspect"
    /\ caller = "generate_image_cli"
    /\ IF aspect_arg \in ASPECT_RATIOS
       THEN pc' = "generate_image" /\ exit_code' = exit_code
       ELSE pc' = "exited" /\ exit_code' = <<2>>
    /\ UNCHANGED <<saved, loopVars, retrieverVars, stageVars>>

\* generate_image.py line 99 and get_api_key lines 54-61
GenerateImageNoKey ==
    /\ pc = "generate_image"
    /\ KeyMissing(api_key)
    /\ pc' = "exited"
    /\ exit_code' = <<1>>
    /\ UNCHANGED <<saved, loopVars, retrieverVars, stageVars>>

\* generate_image.py lines 99-123: the selector is validated and the first
\* generate_content call is made
GenerateImageCallsService ==
    /\ pc = "generate_image"
    /\ ~KeyMissing(api_key)
    /\ aspect_ratio' = ValidatedRatio(aspect_arg)
    /\ render_calls' = Append(render_calls,
            [iteration |-> iteration,
             prompt |-> build_prompt(current_description),
             output_path |-> output_path,
             status |-> "running",
             saved_path |-> <<>>])
    /\ service_calls' = 1
    /\ pc' = "service"
    /\ UNCHANGED <<saved, exit_code, retrieverVars, output_path,
                   styled_returned, stylist_output, current_description,
                   iteration, results, files, critic_calls, attempt,
                   last_error, sleeps, aspect_arg, data_path, plot_outcome>>

NextAspect ==
    \/ DetermineAspectRatio
    \/ ParseAspectArgument
    \/ GenerateImageNoKey
    \/ GenerateImageCallsService

SpecAspect == InitAspect /\ [][NextAspect]_vars

\* a selector outside the enumerated set was given, and the credential is
\* there
UnknownSelector ==
    aspect_arg # "unset" /\ aspect_arg \notin ASPECT_RATIOS /\ api_key

\* no error: the process has not ended, it can go on, and once
\* generate_image has validated the selector the ratio is the default and
\* the service call is made
FallsBack ==
    /\ exit_code = <<>>
    /\ IF pc = "service"
       THEN aspect_ratio = "16:9" /\ service_calls = 1
       ELSE ENABLED NextAspect

\* the selector run_diagram_pipeline passes is a member of the enumerated
\* set: the mapped ratio for the four known intents, 16:9 for any other
IntentMapped ==
    (caller = "orchestrate" /\ aspect_arg # "unset") =>
        /\ aspect_arg \in ASPECT_RATIOS
        /\ aspect_arg =
              IF results["visual_intent"] \in
                    {"Detailed Module", "Architecture Diagram"}
              THEN "3:2" ELSE "16:9"

====
